---- MODULE Spec2Model ----
(***************************************************************************)
(* Generation orchestration layer of distilabel (llms/base.py):            *)
(*   - LLM.generate_outputs and LLM._offline_batch_generate_polling        *)
(*     (specification SpecPoll; SpecPollFair adds the progress of the      *)
(*     polling loop),                                                      *)
(*   - AsyncLLM.generate / AsyncLLM._agenerate and merge_responses         *)
(*     (specification Spec),                                               *)
(*   - merge_responses applied to lists of fragments (SpecMerge),          *)
(*   - AsyncLLM.event_loop and AsyncLLM.__del__ (SpecLoop),                *)
(*   - LLM.runtime_parameters_names (SpecParams),                          *)
(* and of DataSampler (steps/generators/data_sampler.py; SpecSampler, and  *)
(* SpecSamplerFair for a generator consumed to its end).                   *)
(***************************************************************************)
EXTENDS Integers, Sequences, FiniteSets, TLC

(***************************************************************************)
(* Bounds of the model.                                                    *)
(***************************************************************************)
\* calls of generate_outputs / generate made on one instance
MaxCalls == 2
\* not-finished signals the backend gives during one call of generate_outputs
MaxNotFinished == 3
\* polling intervals that can be configured: 0 .. MaxInterval seconds
MaxInterval == 1
\* num_generations values a caller passes: 1 .. MaxNumGen
MaxNumGen == 3
\* inputs of a batch: 0 .. MaxBatch
MaxBatch == 2
\* tasks AsyncLLM._agenerate creates for one batch
MaxTasks == 4
\* fragments handed to merge_responses: 0 .. MaxFragments
MaxFragments == 3
\* generations of one fragment: 1 .. MaxFragLen
MaxFragLen == 2
\* event loops created in the thread: 1 .. MaxLoops
MaxLoops == 3
\* DataSampler.samples: 0 .. MaxSamples
MaxSamples == 3
\* DataSampler.batch_size: 0 .. MaxBatchSize
MaxBatchSize == 2

None == "None"
\* Optional[int]: the empty set is None, {s} is the integer s
NoInt == {}
OptionalInt(S) == {NoInt} \cup {{s} : s \in S}

\* values of the JobHandle set (each stands for a tuple of job identifiers)
JobHandles == {"jobs_a", "jobs_b"}
\* completed batch results a backend gives back (opaque to this layer)
BatchResults == {"batch_a", "batch_b"}
\* formatted inputs, batches of them, and keyword arguments a caller passes
Prompts == {"p", "q"}
Batches == UNION {[1..len -> Prompts] : len \in 0..MaxBatch}
Kwargs == {"no_kwargs", "temperature"}

VARIABLES
    \* ---- LLM (configuration and fields) ----
    use_offline_batch_generation,               \* base.py:99
    offline_batch_generation_block_until_done,  \* base.py:104, Optional[int]
    jobs_ids,                                   \* base.py:111, None or a tuple
    implemented,      \* does the subclass override offline_batch_generate
    sigint_env,       \* is SIGINT_HANDLER_CALLED_ENV_NAME set in os.environ
    \* ---- one call of generate_outputs ----
    pc,               \* position of the call
    args,             \* arguments the caller passed
    signal,           \* the exception `e` the backend raised last
    outcome,          \* what the caller receives
    backend_value,    \* the last value a backend operation returned
    gen_args,         \* arguments generate was invoked with
    n_offline,        \* invocations of offline_batch_generate in this call
    n_notfinished,    \* not-finished signals in this call
    n_sleeps,         \* completed time.sleep in this call
    n_generate,       \* invocations of generate in this call
    interrupt_at,     \* where a KeyboardInterrupt was delivered in this call
    calls,            \* calls of generate_outputs made so far
    \* ---- AsyncLLM ----
    num_generations_param_supported,   \* base.py:394, _num_generations_param_supported
    a_pc,             \* position of the call of AsyncLLM.generate
    inputs,           \* the batch passed to generate
    num_generations,  \* the generation count passed to generate
    tasks,            \* the tasks _agenerate created, in submission order
    completion,       \* the tasks that returned, in completion order
    gather_exc,       \* the first task that failed (0: none), as asyncio.gather keeps it
    result,           \* what generate returned
    error,            \* the task whose failure generate raised (0: none)
    leftover,         \* tasks of earlier calls still pending on the event loop
    a_calls,          \* calls of generate made so far
    a_kwargs,         \* **kwargs of the generate call at hand (base.py:476)
    \* ---- merge_responses on its own ----
    m_pc,             \* position of the caller of merge_responses
    m_fragments,      \* the fragments f1 .. fk the caller started with
    m_responses,      \* the list the caller holds, some fragments merged already
    m_result,         \* what merge_responses returned for the whole list
    \* ---- AsyncLLM instances and the event loops of their thread ----
    l_event_loop,     \* base.py:395, _event_loop of each instance (NoLoop: None)
    l_new_event_loop, \* base.py:396, _new_event_loop of each instance
    l_life,           \* each instance: alive, deleted, or deleted at interpreter shutdown
    l_unloaded,       \* has unload been called on the instance
    l_state,          \* each loop: absent, open, running or closed
    l_used,           \* the loops each instance called run_until_complete on
    l_outcome,        \* how the last generate of each instance ended
    \* ---- runtime_parameters_names ----
    r_pc,             \* position of the caller of runtime_parameters_names
    r_async,          \* is the instance an AsyncLLM
    r_generate,       \* signature of the instance's generate: name -> default
    r_agenerate,      \* signature of the instance's agenerate (AsyncLLM only)
    r_result,         \* what runtime_parameters_names returned
    \* ---- DataSampler ----
    s_data,           \* data_sampler.py:121, data
    s_size,           \* data_sampler.py:122, size
    s_samples,        \* data_sampler.py:129, samples
    s_batch_size,     \* batch_size of the generator step
    s_offset,         \* the offset passed to process
    s_pc,             \* position of the generator process returned
    s_total_samples,  \* data_sampler.py:153, total_samples
    s_batch,          \* the batch yielded last
    s_flags,          \* the last-batch flags yielded so far
    s_rows            \* rows yielded so far

pollVars == <<use_offline_batch_generation, offline_batch_generation_block_until_done,
              jobs_ids, implemented, sigint_env, pc, args, signal, outcome,
              backend_value, gen_args, n_offline, n_notfinished, n_sleeps,
              n_generate, interrupt_at, calls>>

asyncVars == <<num_generations_param_supported, a_pc, inputs, num_generations, tasks,
               completion, gather_exc, result, error, leftover, a_calls, a_kwargs>>

mergeVars == <<m_pc, m_fragments, m_responses, m_result>>

loopVars == <<l_event_loop, l_new_event_loop, l_life, l_unloaded, l_state, l_used,
              l_outcome>>

paramVars == <<r_pc, r_async, r_generate, r_agenerate, r_result>>

samplerVars == <<s_data, s_size, s_samples, s_batch_size, s_offset, s_pc,
                 s_total_samples, s_batch, s_flags, s_rows>>

vars == <<pollVars, asyncVars, mergeVars, loopVars, paramVars, samplerVars>>

NoOutcome == [kind |-> "none", value |-> None]
NoSignal == [kind |-> "none", jobs_ids |-> None]
NoArgs == [inputs |-> <<>>, num_generations |-> 0, kwargs |-> None]

\* the arguments of a call of generate_outputs, which hands them on unread
CallBatches == {<<"p">>, <<"p", "q">>}
CallArgs == [inputs : CallBatches, num_generations : 1..MaxNumGen, kwargs : Kwargs]

Terminal == {"returned", "raised"}

(***************************************************************************)
(* LLM.generate_outputs: the dispatch of base.py:174-190.                  *)
(***************************************************************************)
\* a dispatch that polls whenever offline-batch mode is on
Dispatch_AlwaysPolls ==
    IF use_offline_batch_generation THEN "poll_invoke" ELSE "generate_invoke"

Dispatch ==
    IF use_offline_batch_generation
    THEN IF offline_batch_generation_block_until_done # NoInt
         THEN "poll_invoke"      \* _offline_batch_generate_polling, line 176
         ELSE "once_invoke"      \* offline_batch_generate, line 184
    ELSE "generate_invoke"       \* generate, line 190

\* the keyword arguments handed on: inputs=inputs, num_generations=num_generations, **kwargs
PassedArgs_DefaultNumGenerations(a) ==
    [inputs |-> a.inputs, num_generations |-> 1, kwargs |-> a.kwargs]

PassedArgs(a) ==
    [inputs |-> a.inputs, num_generations |-> a.num_generations, kwargs |-> a.kwargs]

generate_outputs ==
    /\ pc \in {"idle"} \cup Terminal
    /\ calls < MaxCalls
    /\ \E a \in CallArgs :
        /\ args' = a
        /\ gen_args' = NoArgs
    /\ pc' = Dispatch
    /\ calls' = calls + 1
    /\ signal' = NoSignal
    /\ outcome' = NoOutcome
    /\ backend_value' = None
    /\ n_offline' = 0
    /\ n_notfinished' = 0
    /\ n_sleeps' = 0
    /\ n_generate' = 0
    /\ interrupt_at' = "nowhere"
    /\ UNCHANGED <<use_offline_batch_generation, offline_batch_generation_block_until_done,
                   jobs_ids, implemented, sigint_env>>
    /\ UNCHANGED asyncVars
    /\ UNCHANGED mergeVars
    /\ UNCHANGED loopVars
    /\ UNCHANGED paramVars
    /\ UNCHANGED samplerVars

(***************************************************************************)
(* LLM.generate (abstract, base.py:138-163): the backend's native batch    *)
(* generation, invoked at line 190.                                        *)
(***************************************************************************)
generate_returns ==
    /\ pc = "generate_invoke"
    /\ gen_args' = PassedArgs(args)
    /\ n_generate' = n_generate + 1
    /\ \E r \in BatchResults :
        /\ backend_value' = r
        /\ outcome' = [kind |-> "result", value |-> r]
    /\ pc' = "returned"
    /\ UNCHANGED <<use_offline_batch_generation, offline_batch_generation_block_until_done,
                   jobs_ids, implemented, sigint_env, args, signal, n_offline,
                   n_notfinished, n_sleeps, interrupt_at, calls>>
    /\ UNCHANGED asyncVars
    /\ UNCHANGED mergeVars
    /\ UNCHANGED loopVars
    /\ UNCHANGED paramVars
    /\ UNCHANGED samplerVars

generate_raises ==
    /\ pc = "generate_invoke"
    /\ gen_args' = PassedArgs(args)
    /\ n_generate' = n_generate + 1
    /\ outcome' = [kind |-> "GenerateError", value |-> None]
    /\ pc' = "raised"
    /\ UNCHANGED <<use_offline_batch_generation, offline_batch_generation_block_until_done,
                   jobs_ids, implemented, sigint_env, args, signal, backend_value,
                   n_offline, n_notfinished, n_sleeps, interrupt_at, calls>>
    /\ UNCHANGED asyncVars
    /\ UNCHANGED mergeVars
    /\ UNCHANGED loopVars
    /\ UNCHANGED paramVars
    /\ UNCHANGED samplerVars

\* a poller without the clause for the not-finished exception
ExceptClause_NotFinishedPropagates(at, kind) ==
    IF at = "poll_invoke" /\ kind = "KeyboardInterrupt"
    THEN "interrupt_handler"
    ELSE "propagate"

\* a poller whose first clause receives every exception but KeyboardInterrupt
ExceptClause_CatchesAll(at, kind) ==
    IF at = "poll_invoke"
    THEN IF kind = "KeyboardInterrupt" THEN "interrupt_handler" ELSE "handler"
    ELSE "propagate"

(***************************************************************************)
(* The try statement of _offline_batch_generate_polling (base.py:210-241): *)
(* which except clause receives an exception of `kind` raised at position  *)
(* `at`.  Only the try body (the invocation of line 211) is guarded: an    *)
(* exception raised inside an except clause (the sleep of line 232 is in   *)
(* the clause of line 216) is not handled by the sibling clauses.  Outside *)
(* the poller (line 184) nothing is caught.                                *)
(***************************************************************************)
ExceptClause(at, kind) ==
    IF at = "poll_invoke"
    THEN IF kind = "NotFinished" THEN "handler"                    \* line 216
         ELSE IF kind = "KeyboardInterrupt" THEN "interrupt_handler"  \* line 233
         ELSE "propagate"
    ELSE "propagate"

\* os.getenv(SIGINT_HANDLER_CALLED_ENV_NAME) is not None, line 226
SigintHandlerCalled_AlwaysSet == TRUE

\* a poller that also gives up after two not-finished signals
SigintHandlerCalled_OrGaveUp == sigint_env \/ n_notfinished >= 2

SigintHandlerCalled == sigint_env

\* `raise e` of line 231: the exception the backend raised, as it is
ReRaise_SelfJobs(e) == [kind |-> "NotFinished", value |-> jobs_ids]

ReRaise(e) == [kind |-> e.kind, value |-> e.jobs_ids]

\* a clause that lets the interrupt through as it is
InterruptedWhilePolling_Bare(ids) == [kind |-> "KeyboardInterrupt", value |-> None]

\* what the except clause of lines 233-241 raises
InterruptedWhilePolling(ids) == [kind |-> "NotFinished", value |-> ids]

\* an exception leaving the position `at`, with the JobHandle set read as `ids`
Raise(at, kind, carried, ids) ==
    LET clause == ExceptClause(at, kind) IN
    IF clause = "handler"
    THEN /\ pc' = "handler"
         /\ outcome' = outcome
    ELSE IF clause = "interrupt_handler"
    THEN /\ pc' = "raised"
         /\ outcome' = InterruptedWhilePolling(ids)
    ELSE /\ pc' = "raised"
         /\ outcome' = [kind |-> kind, value |-> carried]

(***************************************************************************)
(* LLM.offline_batch_generate (base.py:354-381), invoked at line 211 by    *)
(* the poller and at line 184 without polling.  A subclass that implements *)
(* it creates the jobs and stores jobs_ids on the first invocation, and    *)
(* then either returns the completed batch or raises                       *)
(* DistilabelOfflineBatchGenerationNotFinishedException (docstring, lines  *)
(* 363-368); the base class raises DistilabelNotImplementedError.          *)
(***************************************************************************)
\* the values jobs_ids can hold after an invocation that ran to its end
BackendStores == IF jobs_ids = None THEN JobHandles ELSE {jobs_ids}

\* an invocation whose completed result is discarded when the interrupt flag is set
offline_batch_generate_returns_UnlessFlag ==
    /\ pc \in {"poll_invoke", "once_invoke"}
    /\ implemented
    /\ n_offline' = n_offline + 1
    /\ jobs_ids' \in BackendStores
    /\ \E r \in BatchResults :
        /\ backend_value' = r
        /\ IF sigint_env /\ pc = "poll_invoke"
           THEN /\ outcome' = [kind |-> "NotFinished", value |-> jobs_ids']
                /\ pc' = "raised"
           ELSE /\ outcome' = [kind |-> "result", value |-> r]
                /\ pc' = "returned"
    /\ UNCHANGED <<use_offline_batch_generation, offline_batch_generation_block_until_done,
                   implemented, sigint_env, args, signal, gen_args, n_notfinished,
                   n_sleeps, n_generate, interrupt_at, calls>>
    /\ UNCHANGED asyncVars
    /\ UNCHANGED mergeVars
    /\ UNCHANGED loopVars
    /\ UNCHANGED paramVars
    /\ UNCHANGED samplerVars

offline_batch_generate_returns ==
    /\ pc \in {"poll_invoke", "once_invoke"}
    /\ implemented
    /\ n_offline' = n_offline + 1
    /\ jobs_ids' \in BackendStores
    /\ \E r \in BatchResults :
        /\ backend_value' = r
        /\ outcome' = [kind |-> "result", value |-> r]
    /\ pc' = "returned"
    /\ UNCHANGED <<use_offline_batch_generation, offline_batch_generation_block_until_done,
                   implemented, sigint_env, args, signal, gen_args, n_notfinished,
                   n_sleeps, n_generate, interrupt_at, calls>>
    /\ UNCHANGED asyncVars
    /\ UNCHANGED mergeVars
    /\ UNCHANGED loopVars
    /\ UNCHANGED paramVars
    /\ UNCHANGED samplerVars

offline_batch_generate_not_finished ==
    /\ pc \in {"poll_invoke", "once_invoke"}
    /\ implemented
    /\ n_notfinished < MaxNotFinished
    /\ n_offline' = n_offline + 1
    /\ n_notfinished' = n_notfinished + 1
    /\ jobs_ids' \in BackendStores
    /\ \E ej \in JobHandles :
        /\ signal' = [kind |-> "NotFinished", jobs_ids |-> ej]
        /\ Raise(pc, "NotFinished", ej, jobs_ids')
    /\ UNCHANGED <<use_offline_batch_generation, offline_batch_generation_block_until_done,
                   implemented, sigint_env, args, backend_value, gen_args, n_sleeps,
                   n_generate, interrupt_at, calls>>
    /\ UNCHANGED asyncVars
    /\ UNCHANGED mergeVars
    /\ UNCHANGED loopVars
    /\ UNCHANGED paramVars
    /\ UNCHANGED samplerVars

offline_batch_generate_not_implemented ==
    /\ pc \in {"poll_invoke", "once_invoke"}
    /\ ~implemented
    /\ n_offline' = n_offline + 1
    /\ signal' = [kind |-> "NotImplemented", jobs_ids |-> None]
    /\ Raise(pc, "NotImplemented", None, jobs_ids)
    /\ UNCHANGED <<use_offline_batch_generation, offline_batch_generation_block_until_done,
                   jobs_ids, implemented, sigint_env, args, backend_value, gen_args,
                   n_notfinished, n_sleeps, n_generate, interrupt_at, calls>>
    /\ UNCHANGED asyncVars
    /\ UNCHANGED mergeVars
    /\ UNCHANGED loopVars
    /\ UNCHANGED paramVars
    /\ UNCHANGED samplerVars

\* a KeyboardInterrupt delivered while the invocation is running
offline_batch_generate_interrupted ==
    /\ pc \in {"poll_invoke", "once_invoke"}
    /\ n_offline' = n_offline + 1
    /\ jobs_ids' \in (IF implemented THEN BackendStores \cup {jobs_ids} ELSE {jobs_ids})
    /\ interrupt_at' = "invoke"
    /\ signal' = [kind |-> "KeyboardInterrupt", jobs_ids |-> None]
    /\ Raise(pc, "KeyboardInterrupt", None, jobs_ids')
    /\ UNCHANGED <<use_offline_batch_generation, offline_batch_generation_block_until_done,
                   implemented, sigint_env, args, backend_value, gen_args,
                   n_notfinished, n_sleeps, n_generate, calls>>
    /\ UNCHANGED asyncVars
    /\ UNCHANGED mergeVars
    /\ UNCHANGED loopVars
    /\ UNCHANGED paramVars
    /\ UNCHANGED samplerVars

\* a handler that forgets the jobs when it cancels
polling_check_sigint_ClearsJobs ==
    /\ pc = "handler"
    /\ IF SigintHandlerCalled
       THEN /\ pc' = "raised"
            /\ outcome' = ReRaise(signal)
            /\ jobs_ids' = None
       ELSE /\ pc' = "sleep"
            /\ outcome' = outcome
            /\ jobs_ids' = jobs_ids
    /\ UNCHANGED <<use_offline_batch_generation, offline_batch_generation_block_until_done,
                   implemented, sigint_env, args, signal, backend_value,
                   gen_args, n_offline, n_notfinished, n_sleeps, n_generate,
                   interrupt_at, calls>>
    /\ UNCHANGED asyncVars
    /\ UNCHANGED mergeVars
    /\ UNCHANGED loopVars
    /\ UNCHANGED paramVars
    /\ UNCHANGED samplerVars

(***************************************************************************)
(* The except clause of lines 216-232: log, consult the flag, re-raise `e` *)
(* or sleep.                                                               *)
(***************************************************************************)
polling_check_sigint ==
    /\ pc = "handler"
    /\ IF SigintHandlerCalled
       THEN /\ pc' = "raised"                                     \* raise e, line 231
            /\ outcome' = ReRaise(signal)
       ELSE /\ pc' = "sleep"                                      \* line 232
            /\ outcome' = outcome
    /\ UNCHANGED <<use_offline_batch_generation, offline_batch_generation_block_until_done,
                   jobs_ids, implemented, sigint_env, args, signal, backend_value,
                   gen_args, n_offline, n_notfinished, n_sleeps, n_generate,
                   interrupt_at, calls>>
    /\ UNCHANGED asyncVars
    /\ UNCHANGED mergeVars
    /\ UNCHANGED loopVars
    /\ UNCHANGED paramVars
    /\ UNCHANGED samplerVars

\* time.sleep(self.offline_batch_generation_block_until_done) runs to its end
time_sleep_done ==
    /\ pc = "sleep"
    /\ n_sleeps' = n_sleeps + 1
    /\ pc' = "poll_invoke"                                        \* while True, line 209
    /\ UNCHANGED <<use_offline_batch_generation, offline_batch_generation_block_until_done,
                   jobs_ids, implemented, sigint_env, args, signal, outcome,
                   backend_value, gen_args, n_offline, n_notfinished, n_generate,
                   interrupt_at, calls>>
    /\ UNCHANGED asyncVars
    /\ UNCHANGED mergeVars
    /\ UNCHANGED loopVars
    /\ UNCHANGED paramVars
    /\ UNCHANGED samplerVars

\* a KeyboardInterrupt delivered during time.sleep
time_sleep_interrupted ==
    /\ pc = "sleep"
    /\ interrupt_at' = "sleep"
    /\ Raise(pc, "KeyboardInterrupt", None, jobs_ids)
    /\ UNCHANGED <<use_offline_batch_generation, offline_batch_generation_block_until_done,
                   jobs_ids, implemented, sigint_env, args, signal, backend_value,
                   gen_args, n_offline, n_notfinished, n_sleeps, n_generate, calls>>
    /\ UNCHANGED asyncVars
    /\ UNCHANGED mergeVars
    /\ UNCHANGED loopVars
    /\ UNCHANGED paramVars
    /\ UNCHANGED samplerVars

\* the SIGINT handler of a child process sets the environment variable (lines 222-225)
sigint_handler ==
    /\ ~sigint_env
    /\ sigint_env' = TRUE
    /\ UNCHANGED <<use_offline_batch_generation, offline_batch_generation_block_until_done,
                   jobs_ids, implemented, pc, args, signal, outcome, backend_value,
                   gen_args, n_offline, n_notfinished, n_sleeps, n_generate,
                   interrupt_at, calls>>
    /\ UNCHANGED asyncVars
    /\ UNCHANGED mergeVars
    /\ UNCHANGED loopVars
    /\ UNCHANGED paramVars
    /\ UNCHANGED samplerVars

\* no call of generate_outputs made yet
NoCallYet ==
    /\ sigint_env = FALSE
    /\ pc = "idle"
    /\ args = NoArgs
    /\ signal = NoSignal
    /\ outcome = NoOutcome
    /\ backend_value = None
    /\ gen_args = NoArgs
    /\ n_offline = 0
    /\ n_notfinished = 0
    /\ n_sleeps = 0
    /\ n_generate = 0
    /\ interrupt_at = "nowhere"
    /\ calls = 0

\* no call of AsyncLLM.generate made yet
NoGenerateYet ==
    /\ a_pc = "idle"
    /\ inputs = <<>>
    /\ num_generations = 0
    /\ tasks = <<>>
    /\ completion = <<>>
    /\ gather_exc = 0
    /\ result = <<>>
    /\ error = 0
    /\ leftover = 0
    /\ a_calls = 0
    /\ a_kwargs = "no_kwargs"

\* no DataSampler constructed
NoSamplerYet ==
    /\ s_data = <<>>
    /\ s_size = 0
    /\ s_samples = 0
    /\ s_batch_size = 0
    /\ s_offset = 0
    /\ s_pc = "idle"
    /\ s_total_samples = 0
    /\ s_batch = <<>>
    /\ s_flags = <<>>
    /\ s_rows = 0

\* runtime_parameters_names not called
NoSignature == [name \in {} |-> "empty"]

NoParamsYet ==
    /\ r_pc = "idle"
    /\ r_async = FALSE
    /\ r_generate = NoSignature
    /\ r_agenerate = NoSignature
    /\ r_result = [generation_kwargs |-> NoSignature]

\* AsyncLLM instances just constructed, no event loop in the thread
Instances == {"first", "second"}
Loops == 1..MaxLoops
NoLoop == 0

NoLoopYet ==
    /\ l_event_loop = [i \in Instances |-> NoLoop]
    /\ l_new_event_loop = [i \in Instances |-> FALSE]
    /\ l_life = [i \in Instances |-> "alive"]
    /\ l_unloaded = [i \in Instances |-> FALSE]
    /\ l_state = [l \in Loops |-> "absent"]
    /\ l_used = [i \in Instances |-> {}]
    /\ l_outcome = [i \in Instances |-> "none"]

\* merge_responses not called on its own
NoMergeYet ==
    /\ m_pc = "idle"
    /\ m_fragments = <<>>
    /\ m_responses = <<>>
    /\ m_result = <<>>

InitPoll ==
    /\ use_offline_batch_generation \in BOOLEAN
    /\ offline_batch_generation_block_until_done \in OptionalInt(0..MaxInterval)
    /\ jobs_ids \in {None} \cup JobHandles
    /\ implemented \in BOOLEAN
    /\ NoCallYet
    /\ num_generations_param_supported = TRUE
    /\ NoGenerateYet
    /\ NoMergeYet
    /\ NoLoopYet
    /\ NoParamsYet
    /\ NoSamplerYet

NextPoll ==
    \/ generate_outputs
    \/ generate_returns
    \/ generate_raises
    \/ offline_batch_generate_returns
    \/ offline_batch_generate_not_finished
    \/ offline_batch_generate_not_implemented
    \/ offline_batch_generate_interrupted
    \/ polling_check_sigint
    \/ time_sleep_done
    \/ time_sleep_interrupted
    \/ sigint_handler

SpecPoll == InitPoll /\ [][NextPoll]_vars

\* the poller is sequential code in one thread: consulting the flag (line 226) and the
\* sleep (line 232) end, and an invocation of the backend (line 211) ends by returning
\* or by signalling not-finished unless it is interrupted
SpecPollFair ==
    /\ InitPoll
    /\ [][NextPoll]_vars
    /\ WF_vars(polling_check_sigint)
    /\ WF_vars(time_sleep_done)
    /\ WF_vars(offline_batch_generate_returns \/ offline_batch_generate_not_finished)

(***************************************************************************)
(* Properties of generate_outputs and of the poller (SpecPoll).            *)
(***************************************************************************)
Polling ==
    use_offline_batch_generation /\ offline_batch_generation_block_until_done # NoInt
OnceOnly ==
    use_offline_batch_generation /\ offline_batch_generation_block_until_done = NoInt
PollerPositions == {"poll_invoke", "handler", "sleep"}

\* C5: with polling configured (interval 0 included), a backend that signals
\* not-finished k times and then returns, the flag never set and no interrupt
\* delivered: generate_outputs returns the backend's completed result after
\* exactly k+1 invocations (and k sleeps); not-finished never reaches the caller.
C5_PollingReturnsAfterKPlusOne ==
    (Polling /\ implemented /\ pc \in Terminal
        /\ ~sigint_env /\ interrupt_at = "nowhere")
    => /\ pc = "returned"
       /\ outcome = [kind |-> "result", value |-> backend_value]
       /\ backend_value \in BatchResults
       /\ n_offline = n_notfinished + 1
       /\ n_sleeps = n_notfinished

C5_Witness ==
    /\ Polling /\ offline_batch_generation_block_until_done = {0}
    /\ pc = "returned" /\ ~sigint_env /\ interrupt_at = "nowhere"
    /\ n_notfinished = 2 /\ n_offline = 3
    /\ outcome.kind = "result"

\* C6: when the interrupt flag is set at the check that follows a not-finished
\* signal, the poller's next step raises the not-finished condition carrying the
\* job handles of the backend's signal, without sleeping and without invoking
\* the backend again.
C6_FlagCancelsPolling ==
    [][(pc = "handler" /\ sigint_env)
        => /\ pc' = "raised"
           /\ outcome' = [kind |-> "NotFinished", value |-> signal.jobs_ids]
           /\ signal.kind = "NotFinished"
           /\ n_offline' = n_offline
           /\ n_sleeps' = n_sleeps]_vars

C6_Witness ==
    /\ Polling /\ pc = "raised" /\ sigint_env /\ interrupt_at = "nowhere"
    /\ n_notfinished = 2 /\ n_offline = 2 /\ n_sleeps = 1
    /\ outcome.kind = "NotFinished"
    /\ outcome.value = signal.jobs_ids
    /\ outcome.value # jobs_ids

\* C7: a KeyboardInterrupt delivered during the poller's sleep reaches the caller
\* as the not-finished condition carrying jobs_ids.
C7_SleepInterruptIsNotFinished ==
    (pc = "raised" /\ interrupt_at = "sleep")
    => outcome = [kind |-> "NotFinished", value |-> jobs_ids]

\* C8: offline-batch mode without a polling interval: offline_batch_generate is
\* invoked exactly once, never followed by a sleep or a retry, and a not-finished
\* signal reaches the caller carrying the signal's job handles.
C8_NoIntervalInvokesOnce ==
    OnceOnly
    => /\ pc \notin PollerPositions \cup {"generate_invoke"}
       /\ n_sleeps = 0
       /\ n_generate = 0
       /\ n_offline <= 1
       /\ (pc \in Terminal => n_offline = 1)
       /\ (signal.kind = "NotFinished"
            => /\ pc = "raised"
               /\ outcome = [kind |-> "NotFinished", value |-> signal.jobs_ids])

C8_Witness ==
    /\ OnceOnly /\ pc = "raised" /\ n_offline = 1 /\ n_notfinished = 1
    /\ outcome.kind = "NotFinished" /\ outcome.value \in JobHandles

\* C9: with offline-batch mode disabled, generate_outputs invokes generate exactly
\* once with the caller's inputs, num_generations and keyword arguments, returns
\* its result, and never invokes offline_batch_generate nor the poller, whatever
\* the polling interval is.
C9_DisabledDelegatesToGenerate ==
    ~use_offline_batch_generation
    => /\ pc \notin PollerPositions \cup {"once_invoke"}
       /\ n_offline = 0
       /\ n_sleeps = 0
       /\ n_generate <= 1
       /\ (pc \in Terminal => n_generate = 1 /\ gen_args = args)
       /\ (pc = "returned" => outcome = [kind |-> "result", value |-> backend_value])

C9_Witness ==
    /\ ~use_offline_batch_generation
    /\ offline_batch_generation_block_until_done # NoInt
    /\ pc = "returned" /\ n_generate = 1
    /\ args.num_generations = 2 /\ gen_args = args
    /\ outcome.kind = "result"

(***************************************************************************)
(* AsyncLLM.generate, AsyncLLM._agenerate and merge_responses              *)
(* (base.py:439-491, 592-614).                                             *)
(***************************************************************************)
\* **kwargs of AsyncLLM.generate, handed to every agenerate call (lines 456 and 465):
\* plain, or asking the backend for logprobs
AsyncKwargs == {"no_kwargs", "logprobs"}

\* the statistics keys of a GenerateOutput
StatKeys == {"input_tokens", "output_tokens"}

\* the generation count agenerate works with: the argument, or its default
\* (num_generations: int = 1, line 432) when the call passes none
Requested(t) == IF t.ng = NoInt THEN 1 ELSE CHOOSE n \in t.ng : TRUE

\* the shapes <<generations, values per statistics key>> of the fragment a backend's
\* agenerate gives back when asked for req generations: a well-formed one, and one with
\* a generation too many and a single value per statistics key
FragmentShapes(req) == {<<req, req>>, <<req + 1, 1>>}

\* the fragment task i of ts returned: every generation and every statistics value
\* records the task that produced it.  A backend asked for logprobs adds the
\* optional logprobs field, one entry per generation (ts[i].lp).
FragmentOf(ts, i) ==
    IF ts[i].lp
    THEN [generations |-> [k \in 1..ts[i].gl |-> [task |-> i, k |-> k]],
          statistics |-> [key \in StatKeys |->
                             [k \in 1..ts[i].sl |-> [key |-> key, task |-> i, k |-> k]]],
          logprobs |-> [k \in 1..ts[i].gl |-> [logprob_of |-> i, k |-> k]]]
    ELSE [generations |-> [k \in 1..ts[i].gl |-> [task |-> i, k |-> k]],
          statistics |-> [key \in StatKeys |->
                             [k \in 1..ts[i].sl |-> [key |-> key, task |-> i, k |-> k]]]]

Fragment(i) == FragmentOf(tasks, i)

\* the lists concatenated from right to left
RECURSIVE SumLists_Reversed(_)
SumLists_Reversed(lists) ==
    IF Len(lists) = 0 THEN <<>>
    ELSE lists[Len(lists)] \o SumLists_Reversed(SubSeq(lists, 1, Len(lists) - 1))

\* sum(lists, []): the lists concatenated from left to right
RECURSIVE SumLists(_)
SumLists(lists) ==
    IF Len(lists) = 0 THEN <<>>
    ELSE SumLists(SubSeq(lists, 1, Len(lists) - 1)) \o lists[Len(lists)]

\* a merger that emits an entry with no generations for an empty list
merge_responses_EmptyEntry(responses) ==
    IF Len(responses) = 0
    THEN << [generations |-> <<>>, statistics |-> [key \in StatKeys |-> <<>>]] >>
    ELSE LET first == responses[1] IN
         << [generations |->
                SumLists([i \in 1..Len(responses) |-> responses[i].generations]),
             statistics |->
                [key \in DOMAIN first.statistics |->
                    SumLists([i \in 1..Len(responses) |-> responses[i].statistics[key]])]] >>

\* a merger that reads only the first and the last response of a longer list
merge_responses_FirstAndLast(responses) ==
    IF Len(responses) = 0 THEN <<>>
    ELSE LET ends == IF Len(responses) > 2
                     THEN <<responses[1], responses[Len(responses)]>>
                     ELSE responses
         IN  << [generations |->
                    SumLists([i \in 1..Len(ends) |-> ends[i].generations]),
                 statistics |->
                    [key \in DOMAIN ends[1].statistics |->
                        SumLists([i \in 1..Len(ends) |-> ends[i].statistics[key]])]] >>

\* a merger that keeps every statistics key found in any response
merge_responses_AllKeys(responses) ==
    IF Len(responses) = 0
    THEN <<>>
    ELSE << [generations |->
                SumLists([i \in 1..Len(responses) |-> responses[i].generations]),
             statistics |->
                [key \in UNION {DOMAIN responses[i].statistics : i \in DOMAIN responses} |->
                    SumLists([i \in 1..Len(responses) |->
                                IF key \in DOMAIN responses[i].statistics
                                THEN responses[i].statistics[key]
                                ELSE <<>>])]] >>

\* a merger that carries the logprobs of the responses into the result
merge_responses_KeepsLogprobs(responses) ==
    IF Len(responses) = 0
    THEN <<>>
    ELSE LET first == responses[1]
             gens == SumLists([i \in 1..Len(responses) |-> responses[i].generations])
             stats == [key \in DOMAIN first.statistics |->
                        SumLists([i \in 1..Len(responses) |-> responses[i].statistics[key]])]
         IN  IF "logprobs" \in DOMAIN first
             THEN << [generations |-> gens, statistics |-> stats,
                      logprobs |-> SumLists([i \in 1..Len(responses) |->
                                        IF "logprobs" \in DOMAIN responses[i]
                                        THEN responses[i].logprobs ELSE <<>>])] >>
             ELSE << [generations |-> gens, statistics |-> stats] >>

\* a merger that concatenates the generations and keeps the statistics of the first
\* response only
merge_responses_StatisticsOfFirst(responses) ==
    IF Len(responses) = 0
    THEN <<>>
    ELSE << [generations |->
                SumLists([i \in 1..Len(responses) |-> responses[i].generations]),
             statistics |-> responses[1].statistics] >>

\* merge_responses, lines 592-614
merge_responses(responses) ==
    IF Len(responses) = 0
    THEN <<>>
    ELSE LET first == responses[1] IN
         << [generations |->
                SumLists([i \in 1..Len(responses) |-> responses[i].generations]),
             statistics |->
                [key \in DOMAIN first.statistics |->
                    SumLists([i \in 1..Len(responses) |-> responses[i].statistics[key]])]] >>

\* tasks of the repeated-call strategy created round by round (one task per input,
\* n times over) instead of input by input
TasksFor_RoundRobin(supported, B, n) ==
    IF supported
    THEN [i \in 1..Len(B) |->
            [pos |-> i, input |-> B[i], ng |-> {n},
             status |-> "pending", gl |-> 0, sl |-> 0, lp |-> FALSE]]
    ELSE [j \in 1..(Len(B) * n) |->
            [pos |-> ((j - 1) % Len(B)) + 1, input |-> B[((j - 1) % Len(B)) + 1],
             ng |-> NoInt, status |-> "pending", gl |-> 0, sl |-> 0, lp |-> FALSE]]

\* the tasks of lines 453-460 (native-count strategy) and of lines 464-468
\* (repeated-call strategy), in the order they are created
TasksFor(supported, B, n) ==
    IF supported
    THEN [i \in 1..Len(B) |->
            [pos |-> i, input |-> B[i], ng |-> {n},
             status |-> "pending", gl |-> 0, sl |-> 0, lp |-> FALSE]]
    ELSE [j \in 1..(Len(B) * n) |->
            [pos |-> ((j - 1) \div n) + 1, input |-> B[((j - 1) \div n) + 1], ng |-> NoInt,
             status |-> "pending", gl |-> 0, sl |-> 0, lp |-> FALSE]]

\* the branch of line 452
CreateTasks(B, n) == TasksFor(num_generations_param_supported, B, n)

\* one task per input under either strategy
NumTasks_OnePerInput(B, n) == Len(B)

NumTasks(B, n) == IF num_generations_param_supported THEN Len(B) ELSE Len(B) * n

Pending(ts) == {i \in DOMAIN ts : ts[i].status = "pending"}

\* await asyncio.gather(*tasks), lines 461 and 469: the results in the order of
\* the awaitables passed
gather == [i \in 1..Len(tasks) |-> Fragment(i)]

\* the event loop steps a task only while _agenerate is suspended, and its only
\* await is the one on asyncio.gather (lines 461 and 469): the list comprehensions
\* that create the tasks hold no await
LoopRunsTasks_DuringCreation == a_pc \in {"creating", "gathering"}

LoopRunsTasks == a_pc = "gathering"

\* AsyncLLM.generate (lines 489-491) starts _agenerate on the instance's event
\* loop.  Tasks that an earlier call left pending stay on the loop.
generate ==
    /\ a_pc \in {"idle"} \cup Terminal
    /\ a_calls < MaxCalls
    /\ \E B \in Batches, n \in 1..MaxNumGen :
        /\ NumTasks(B, n) <= MaxTasks
        /\ inputs' = B
        /\ num_generations' = n
    /\ a_kwargs' \in AsyncKwargs
    /\ tasks' = <<>>
    /\ leftover' = leftover + Cardinality(Pending(tasks))
    /\ completion' = <<>>
    /\ gather_exc' = 0
    /\ result' = <<>>
    /\ error' = 0
    /\ a_pc' = "creating"
    /\ a_calls' = a_calls + 1
    /\ UNCHANGED num_generations_param_supported
    /\ UNCHANGED pollVars
    /\ UNCHANGED mergeVars
    /\ UNCHANGED loopVars
    /\ UNCHANGED paramVars
    /\ UNCHANGED samplerVars

\* asyncio.create_task for the next element of the comprehension (lines 453-460 /
\* 464-468): the task is scheduled, it does not run yet
create_task ==
    /\ a_pc = "creating"
    /\ Len(tasks) < NumTasks(inputs, num_generations)
    /\ tasks' = Append(tasks, CreateTasks(inputs, num_generations)[Len(tasks) + 1])
    /\ UNCHANGED <<num_generations_param_supported, a_kwargs, a_pc, inputs, num_generations,
                   completion, gather_exc, result, error, leftover, a_calls>>
    /\ UNCHANGED pollVars
    /\ UNCHANGED mergeVars
    /\ UNCHANGED loopVars
    /\ UNCHANGED paramVars
    /\ UNCHANGED samplerVars

\* the comprehension is exhausted: _agenerate suspends on asyncio.gather(*tasks)
await_gather ==
    /\ a_pc = "creating"
    /\ Len(tasks) = NumTasks(inputs, num_generations)
    /\ a_pc' = "gathering"
    /\ UNCHANGED <<num_generations_param_supported, a_kwargs, inputs, num_generations, tasks,
                   completion, gather_exc, result, error, leftover, a_calls>>
    /\ UNCHANGED pollVars
    /\ UNCHANGED mergeVars
    /\ UNCHANGED loopVars
    /\ UNCHANGED paramVars
    /\ UNCHANGED samplerVars

\* a task's agenerate call returns its fragment
agenerate_returns ==
    /\ LoopRunsTasks
    /\ \E i \in Pending(tasks) :
        /\ \E shape \in FragmentShapes(Requested(tasks[i])) :
            tasks' = [tasks EXCEPT ![i].status = "done",
                                   ![i].gl = shape[1], ![i].sl = shape[2],
                                   ![i].lp = (a_kwargs = "logprobs")]
        /\ completion' = Append(completion, i)
    /\ UNCHANGED <<num_generations_param_supported, a_kwargs, a_pc, inputs, num_generations,
                   gather_exc, result, error, leftover, a_calls>>
    /\ UNCHANGED pollVars
    /\ UNCHANGED mergeVars
    /\ UNCHANGED loopVars
    /\ UNCHANGED paramVars
    /\ UNCHANGED samplerVars

\* a task's agenerate call raises; asyncio.gather keeps the first exception
agenerate_raises ==
    /\ LoopRunsTasks
    /\ \E i \in Pending(tasks) :
        /\ tasks' = [tasks EXCEPT ![i].status = "failed"]
        /\ gather_exc' = IF gather_exc = 0 THEN i ELSE gather_exc
    /\ UNCHANGED <<num_generations_param_supported, a_kwargs, a_pc, inputs, num_generations,
                   completion, result, error, leftover, a_calls>>
    /\ UNCHANGED pollVars
    /\ UNCHANGED mergeVars
    /\ UNCHANGED loopVars
    /\ UNCHANGED paramVars
    /\ UNCHANGED samplerVars

\* a gather that hands over what has returned once no task is pending, failed
\* tasks or not
gather_returns_despite_failures ==
    /\ a_pc = "gathering"
    /\ Pending(tasks) = {}
    /\ result' = merge_responses([j \in 1..Len(completion) |-> Fragment(completion[j])])
    /\ a_pc' = "returned"
    /\ UNCHANGED <<num_generations_param_supported, a_kwargs, inputs, num_generations, tasks,
                   completion, gather_exc, error, leftover, a_calls>>
    /\ UNCHANGED pollVars
    /\ UNCHANGED mergeVars
    /\ UNCHANGED loopVars
    /\ UNCHANGED paramVars
    /\ UNCHANGED samplerVars

\* every task returned: gather gives the results, _agenerate merges and returns them
\* (lines 461-462 / 469-470), run_until_complete returns the value
gather_returns ==
    /\ a_pc = "gathering"
    /\ gather_exc = 0
    /\ Pending(tasks) = {}
    /\ result' = merge_responses(gather)
    /\ a_pc' = "returned"
    /\ UNCHANGED <<num_generations_param_supported, a_kwargs, inputs, num_generations, tasks,
                   completion, gather_exc, error, leftover, a_calls>>
    /\ UNCHANGED pollVars
    /\ UNCHANGED mergeVars
    /\ UNCHANGED loopVars
    /\ UNCHANGED paramVars
    /\ UNCHANGED samplerVars

\* a task failed: gather raises its exception in _agenerate, which has no handler,
\* and run_until_complete raises it in generate; the other tasks are left as they are
gather_raises ==
    /\ a_pc = "gathering"
    /\ gather_exc # 0
    /\ error' = gather_exc
    /\ a_pc' = "raised"
    /\ UNCHANGED <<num_generations_param_supported, a_kwargs, inputs, num_generations, tasks,
                   completion, gather_exc, result, leftover, a_calls>>
    /\ UNCHANGED pollVars
    /\ UNCHANGED mergeVars
    /\ UNCHANGED loopVars
    /\ UNCHANGED paramVars
    /\ UNCHANGED samplerVars

\* a task left pending by an earlier call ends while the loop runs this call
leftover_task_ends ==
    /\ LoopRunsTasks
    /\ leftover > 0
    /\ leftover' = leftover - 1
    /\ UNCHANGED <<num_generations_param_supported, a_kwargs, a_pc, inputs, num_generations, tasks,
                   completion, gather_exc, result, error, a_calls>>
    /\ UNCHANGED pollVars
    /\ UNCHANGED mergeVars
    /\ UNCHANGED loopVars
    /\ UNCHANGED paramVars
    /\ UNCHANGED samplerVars

Init ==
    /\ num_generations_param_supported \in BOOLEAN
    /\ NoGenerateYet
    /\ use_offline_batch_generation = FALSE
    /\ offline_batch_generation_block_until_done = NoInt
    /\ jobs_ids = None
    /\ implemented = FALSE
    /\ NoCallYet
    /\ NoMergeYet
    /\ NoLoopYet
    /\ NoParamsYet
    /\ NoSamplerYet

Next ==
    \/ generate
    \/ create_task
    \/ await_gather
    \/ agenerate_returns
    \/ agenerate_raises
    \/ gather_returns
    \/ gather_raises
    \/ leftover_task_ends

Spec == Init /\ [][Next]_vars

(***************************************************************************)
(* Properties of AsyncLLM.generate (Spec).                                 *)
(***************************************************************************)
\* the fragment of task i has the shape asked for
WellFormed(i) ==
    /\ tasks[i].gl = Requested(tasks[i])
    /\ tasks[i].sl = Requested(tasks[i])

AllWellFormed == \A i \in DOMAIN tasks : WellFormed(i)

\* the tasks created for the input at position p, in submission order
TasksOf(p) == {i \in DOMAIN tasks : tasks[i].pos = p}

\* C1: generate returns exactly one entry per input of the batch.
C1_OneEntryPerInput ==
    a_pc = "returned" => Len(result) = Len(inputs)

\* C2: when every fragment is well-formed, every entry of the result has
\* num_generations generations and num_generations values per statistics key.
C2_EveryEntryHasNGenerations ==
    (a_pc = "returned" /\ AllWellFormed)
    => \A e \in DOMAIN result :
        /\ Len(result[e].generations) = num_generations
        /\ \A key \in DOMAIN result[e].statistics :
            Len(result[e].statistics[key]) = num_generations

\* C3: entry i of the result holds only generations and statistics values produced
\* by the tasks scheduled for input i.
C3_EntryHoldsOnlyItsInput ==
    a_pc = "returned"
    => \A e \in DOMAIN result :
        /\ \A k \in DOMAIN result[e].generations :
            result[e].generations[k].task \in TasksOf(e)
        /\ \A key \in DOMAIN result[e].statistics :
            \A k \in DOMAIN result[e].statistics[key] :
                result[e].statistics[key][k].task \in TasksOf(e)

\* C4: under the repeated-call strategy, in the result for the input at position p
\* the generation and each statistics value at position j come from the j-th task
\* submitted for that input.
C4_SlotsInSubmissionOrder ==
    (a_pc = "returned" /\ ~num_generations_param_supported /\ AllWellFormed)
    => \A p \in DOMAIN inputs :
        /\ p \in DOMAIN result
        /\ \A j \in 1..num_generations :
            /\ j \in DOMAIN result[p].generations
            /\ result[p].generations[j].task = (p - 1) * num_generations + j
            /\ \A key \in DOMAIN result[p].statistics :
                /\ j \in DOMAIN result[p].statistics[key]
                /\ result[p].statistics[key][j].task = (p - 1) * num_generations + j

\* C10: once a task of the batch has failed, generate never returns a result: it
\* can only raise, and what it raises is the failure of a task of the batch.
C10_FailureAbortsBatch ==
    /\ (\E i \in DOMAIN tasks : tasks[i].status = "failed")
        => (a_pc # "returned" /\ result = <<>>)
    /\ a_pc = "raised"
        => /\ error \in DOMAIN tasks
           /\ tasks[error].status = "failed"
           /\ error = gather_exc
           /\ result = <<>>

C10_Witness ==
    /\ a_pc = "raised"
    /\ Len(inputs) = 2
    /\ error \in DOMAIN tasks
    /\ \E i \in DOMAIN tasks : tasks[i].status = "done" /\ tasks[i].pos # tasks[error].pos
    /\ result = <<>>

\* C11: every task of the batch is created before any task takes a step, generate
\* returns only after every task of the batch has completed, and what it returns is
\* the merge of the completed tasks' fragments, made with no task stepping meanwhile.
C11_FanOutThenAwaitAll ==
    /\ a_pc = "creating"
        => /\ Pending(tasks) = DOMAIN tasks
           /\ completion = <<>>
           /\ gather_exc = 0
    /\ Pending(tasks) # DOMAIN tasks
        => Len(tasks) = NumTasks(inputs, num_generations)
    /\ a_pc = "returned"
        => /\ Len(tasks) = NumTasks(inputs, num_generations)
           /\ \A i \in DOMAIN tasks : tasks[i].status = "done"
           /\ Len(completion) = Len(tasks)
           /\ result = merge_responses(gather)

C11_Witness ==
    /\ a_pc = "returned"
    /\ Len(tasks) = 4
    /\ completion = <<3, 1, 4, 2>>

\* what a caller can tell about a value of a batch result: the input it answers and
\* which of the generations requested for that input it is (under the repeated-call
\* strategy the tasks of one input are consecutive, one generation each)
Observable(ts, n, v) ==
    [input |-> ts[v.task].input,
     pos |-> ts[v.task].pos,
     slot |-> IF ts[v.task].ng = NoInt THEN ((v.task - 1) % n) + 1 ELSE v.k]

Observed(ts, n, res) ==
    [e \in DOMAIN res |->
        [generations |-> [k \in DOMAIN res[e].generations |->
                             Observable(ts, n, res[e].generations[k])],
         statistics |-> [key \in DOMAIN res[e].statistics |->
                            [k \in DOMAIN res[e].statistics[key] |->
                                Observable(ts, n, res[e].statistics[key][k])]]]]

\* the tasks of a strategy once each has returned a well-formed fragment
CompletedTasks(supported, B, n) ==
    LET ts == TasksFor(supported, B, n) IN
    [i \in DOMAIN ts |->
        [ts[i] EXCEPT !.status = "done", !.gl = Requested(ts[i]), !.sl = Requested(ts[i])]]

\* what generate returns for B and n under a strategy (lines 461-462 / 469-470)
BatchResultOf(supported, B, n) ==
    LET ts == CompletedTasks(supported, B, n) IN
    Observed(ts, n, merge_responses([i \in DOMAIN ts |-> FragmentOf(ts, i)]))

\* C12: with well-formed fragments, what generate returns under the strategy in use is
\* what it returns for the same batch and num_generations under the other strategy.
C12_StrategiesEquivalent ==
    (a_pc = "returned" /\ AllWellFormed)
    => Observed(tasks, num_generations, result)
         = BatchResultOf(~num_generations_param_supported, inputs, num_generations)

C12_Witness ==
    /\ a_pc = "returned"
    /\ AllWellFormed
    /\ ~num_generations_param_supported
    /\ Len(inputs) = 1
    /\ num_generations = 3
    /\ Len(result) = 1
    /\ Len(result[1].generations) = 3

\* C13: under the native-count strategy the batch result is exactly the sequence of the
\* fragments the tasks returned, in input order, with no merging.
C13_NativeCountReturnsFragments ==
    (a_pc = "returned" /\ num_generations_param_supported)
    => result = gather

\* C16: merge_responses gives an empty sequence for an empty list of fragments, so
\* generate on an empty batch returns an empty batch result.
C16_EmptyBatchGivesEmptyResult ==
    (a_pc = "returned" /\ inputs = <<>>)
    => /\ gather = <<>>
       /\ result = <<>>

C16_Witness ==
    /\ a_pc = "returned"
    /\ a_calls = 1
    /\ inputs = <<>>
    /\ tasks = <<>>
    /\ result = <<>>

(***************************************************************************)
(* merge_responses on its own (SpecMerge): a caller holds a list of        *)
(* fragments, may merge any run of neighbours into one fragment first, and *)
(* merges the list it then holds.                                          *)
(***************************************************************************)
\* the statistics a fragment may carry
KeySets == {StatKeys, {"input_tokens"}}

\* shapes of a fragment: its generations, its values per statistics key (as many as
\* generations, or one), its statistics keys, and whether it carries logprobs
Shapes ==
    {sh \in [gl : 1..MaxFragLen, sl : 1..MaxFragLen, keys : KeySets, lp : BOOLEAN] :
        sh.sl \in {sh.gl, 1}}

\* the fragments of a list come from one backend called with the same kwargs: all
\* of them carry logprobs, or none does
ShapeLists ==
    {shapes \in UNION {[1..k -> Shapes] : k \in 0..MaxFragments} :
        \A i \in DOMAIN shapes : shapes[i].lp = shapes[1].lp}

\* the i-th fragment of a list of shapes: every value records its fragment
ResponseOf(shapes, i) ==
    IF shapes[i].lp
    THEN [generations |-> [k \in 1..shapes[i].gl |-> [frag |-> i, k |-> k]],
          statistics |-> [key \in shapes[i].keys |->
                             [k \in 1..shapes[i].sl |-> [key |-> key, frag |-> i, k |-> k]]],
          logprobs |-> [k \in 1..shapes[i].gl |-> [logprob_of |-> i, k |-> k]]]
    ELSE [generations |-> [k \in 1..shapes[i].gl |-> [frag |-> i, k |-> k]],
          statistics |-> [key \in shapes[i].keys |->
                             [k \in 1..shapes[i].sl |-> [key |-> key, frag |-> i, k |-> k]]]]

\* r["statistics"][key] of line 610 raises KeyError when a response lacks a key of the
\* first one
merge_fails(responses) ==
    /\ Len(responses) > 0
    /\ \E i \in DOMAIN responses :
          \E key \in DOMAIN responses[1].statistics :
              key \notin DOMAIN responses[i].statistics

\* merge_responses(responses) for the list at hand
merge_call ==
    /\ m_pc = "holding"
    /\ IF merge_fails(m_responses)
       THEN /\ m_pc' = "raised"
            /\ m_result' = m_result
       ELSE /\ m_pc' = "merged"
            /\ m_result' = merge_responses(m_responses)
    /\ UNCHANGED <<m_fragments, m_responses>>
    /\ UNCHANGED <<pollVars, asyncVars>>
    /\ UNCHANGED loopVars
    /\ UNCHANGED paramVars
    /\ UNCHANGED samplerVars

\* merge_responses on the neighbours lo .. hi, whose result takes their place
merge_group ==
    /\ m_pc = "holding"
    /\ \E lo \in DOMAIN m_responses :
         \E hi \in DOMAIN m_responses :
            /\ lo < hi
            /\ LET group == SubSeq(m_responses, lo, hi) IN
               IF merge_fails(group)
               THEN /\ m_pc' = "raised"
                    /\ m_responses' = m_responses
               ELSE /\ m_pc' = m_pc
                    /\ m_responses' = SubSeq(m_responses, 1, lo - 1)
                                        \o merge_responses(group)
                                        \o SubSeq(m_responses, hi + 1, Len(m_responses))
    /\ UNCHANGED <<m_fragments, m_result>>
    /\ UNCHANGED <<pollVars, asyncVars>>
    /\ UNCHANGED loopVars
    /\ UNCHANGED paramVars
    /\ UNCHANGED samplerVars

InitMerge ==
    /\ m_pc = "holding"
    /\ \E shapes \in ShapeLists :
          m_fragments = [i \in 1..Len(shapes) |-> ResponseOf(shapes, i)]
    /\ m_responses = m_fragments
    /\ m_result = <<>>
    /\ use_offline_batch_generation = FALSE
    /\ offline_batch_generation_block_until_done = NoInt
    /\ jobs_ids = None
    /\ implemented = FALSE
    /\ NoCallYet
    /\ num_generations_param_supported = TRUE
    /\ NoGenerateYet
    /\ NoLoopYet
    /\ NoParamsYet
    /\ NoSamplerYet

NextMerge ==
    \/ merge_call
    \/ merge_group

SpecMerge == InitMerge /\ [][NextMerge]_vars

(***************************************************************************)
(* Properties of merge_responses (SpecMerge).                              *)
(***************************************************************************)
\* every fragment has the statistics keys of the first
SameKeys(fragments) ==
    \A i \in DOMAIN fragments :
        DOMAIN fragments[i].statistics = DOMAIN fragments[1].statistics

\* total length of the lists before the i-th
RECURSIVE LenBefore(_, _)
LenBefore(lists, i) ==
    IF i <= 1 THEN 0 ELSE LenBefore(lists, i - 1) + Len(lists[i - 1])

\* merged holds the elements of lists[1], then those of lists[2], ... and nothing else
IsConcatenation(merged, lists) ==
    /\ Len(merged) = LenBefore(lists, Len(lists) + 1)
    /\ \A i \in DOMAIN lists :
          \A k \in DOMAIN lists[i] :
              merged[LenBefore(lists, i) + k] = lists[i][k]

\* C14: merge_responses on a non-empty list of fragments with the same statistics keys
\* returns exactly one result, whose generations and whose statistics of every key are
\* the fragments' concatenated in fragment order.
C14_MergeConcatenatesInOrder ==
    (m_pc = "merged" /\ m_responses = m_fragments
        /\ m_fragments # <<>> /\ SameKeys(m_fragments))
    => /\ Len(m_result) = 1
       /\ IsConcatenation(m_result[1].generations,
                          [i \in DOMAIN m_fragments |-> m_fragments[i].generations])
       /\ DOMAIN m_result[1].statistics = DOMAIN m_fragments[1].statistics
       /\ \A key \in DOMAIN m_result[1].statistics :
             IsConcatenation(m_result[1].statistics[key],
                             [i \in DOMAIN m_fragments |-> m_fragments[i].statistics[key]])

C14_Witness ==
    /\ m_pc = "merged"
    /\ m_responses = m_fragments
    /\ Len(m_fragments) = 3
    /\ SameKeys(m_fragments)
    /\ Len(m_fragments[1].generations) = 2
    /\ Len(m_fragments[3].generations) = 1
    /\ Len(m_result[1].generations) = 5

\* C15: for fragments with the same statistics keys, merging runs of neighbours first
\* and then the list gives what merging the fragments at once gives.
C15_MergeIsAssociative ==
    (m_pc = "merged" /\ SameKeys(m_fragments))
    => m_result = merge_responses(m_fragments)

C15_Witness ==
    /\ m_pc = "merged"
    /\ Len(m_fragments) = 3
    /\ SameKeys(m_fragments)
    /\ Len(m_responses) = 2
    /\ m_responses[2] = m_fragments[3]
    /\ <<m_responses[1]>> = merge_responses(SubSeq(m_fragments, 1, 2))
    /\ m_result = merge_responses(m_fragments)

\* C17: with offline-batch mode enabled on a backend that does not implement
\* offline_batch_generate, and no interrupt delivered, every call of generate_outputs
\* fails with the not-implemented error after exactly one invocation, without a
\* not-finished round and without sleeping, whatever the polling interval.
C17_NotImplementedNeverRetried ==
    (use_offline_batch_generation /\ ~implemented /\ interrupt_at = "nowhere")
    => /\ pc \in {"idle", "poll_invoke", "once_invoke", "raised"}
       /\ n_sleeps = 0
       /\ n_notfinished = 0
       /\ n_generate = 0
       /\ n_offline <= 1
       /\ pc = "raised"
            => /\ outcome = [kind |-> "NotImplemented", value |-> None]
               /\ n_offline = 1

C17_Witness ==
    /\ use_offline_batch_generation
    /\ ~implemented
    /\ Polling
    /\ calls = 2
    /\ pc = "raised"
    /\ outcome.kind = "NotImplemented"
    /\ n_offline = 1
    /\ n_sleeps = 0

\* C18 as stated: a call that polls ends only by returning a completed batch result or
\* by raising the not-finished condition.
C18_OnlyCompletionOrCancellation ==
    (Polling /\ pc \in Terminal)
    => \/ pc = "returned" /\ outcome.kind = "result"
       \/ pc = "raised" /\ outcome.kind = "NotFinished"

\* C18, amended: a call that polls ends only by returning the completed batch result, by
\* raising the not-finished condition on cancellation (the flag set when a not-finished
\* signal is handled, or an interrupt during the invocation), by an error other than
\* not-finished that offline_batch_generate raised, or by a KeyboardInterrupt delivered
\* during the sleep; without a cancellation no number of not-finished signals ends it.
C18_ExitsOfThePoller ==
    (Polling /\ pc \in Terminal)
    => \/ /\ pc = "returned"
          /\ outcome = [kind |-> "result", value |-> backend_value]
          /\ implemented
       \/ /\ pc = "raised"
          /\ outcome.kind = "NotFinished"
          /\ sigint_env \/ interrupt_at = "invoke"
       \/ /\ pc = "raised"
          /\ outcome = [kind |-> "NotImplemented", value |-> None]
          /\ ~implemented
       \/ /\ pc = "raised"
          /\ outcome = [kind |-> "KeyboardInterrupt", value |-> None]
          /\ interrupt_at = "sleep"

C18_Witness ==
    /\ Polling
    /\ pc = "returned"
    /\ n_notfinished = MaxNotFinished
    /\ n_sleeps = MaxNotFinished
    /\ ~sigint_env
    /\ interrupt_at = "nowhere"

\* C20: generate_outputs and the poller never assign jobs_ids: it changes only in a step
\* in which the backend's offline_batch_generate is invoked, so on every exit it holds
\* the value the backend last stored.
C20_JobsIdsOnlyWrittenByBackend ==
    [][jobs_ids' # jobs_ids
         => /\ pc \in {"poll_invoke", "once_invoke"}
            /\ implemented
            /\ n_offline' = n_offline + 1]_vars

C20_Witness ==
    /\ Polling
    /\ pc = "raised"
    /\ outcome.kind = "NotFinished"
    /\ sigint_env
    /\ n_sleeps >= 1
    /\ jobs_ids \in JobHandles

\* C19: with a polling interval configured, the flag never set and no interrupt
\* delivered, a call that polls a backend whose batch eventually completes eventually
\* returns the completed result.
C19_PollingEventuallyReturns ==
    ([](~sigint_env) /\ [](interrupt_at = "nowhere"))
    => ((Polling /\ implemented /\ pc = "poll_invoke")
           ~> (pc = "returned" /\ outcome = [kind |-> "result", value |-> backend_value]))

C19_Witness ==
    /\ Polling
    /\ implemented
    /\ pc = "returned"
    /\ outcome = [kind |-> "result", value |-> backend_value]
    /\ n_notfinished = 2
    /\ n_sleeps = 2
    /\ n_offline = 3
    /\ ~sigint_env
    /\ interrupt_at = "nowhere"

(***************************************************************************)
(* AsyncLLM.event_loop, AsyncLLM.generate on its loop, AsyncLLM.__del__    *)
(* and LLM.unload (SpecLoop): the instances of one thread and the event    *)
(* loops of that thread.  Some caller of the thread may itself run a loop  *)
(* (asyncio.run) and use the instances from inside it.                     *)
(***************************************************************************)
\* asyncio.get_running_loop(): the loops running in the thread (at most one)
RunningLoops == {l \in Loops : l_state[l] = "running"}

\* loop.is_closed()
IsClosed(l) == l_state[l] = "closed"

\* asyncio.new_event_loop() gives a loop that did not exist before
AbsentLoops == {l \in Loops : l_state[l] = "absent"}
FreshLoop == CHOOSE l \in AbsentLoops : \A k \in AbsentLoops : l <= k

\* _event_loop set to a newly created loop, lines 422-423 and 425-426
NewEventLoop(i) ==
    /\ AbsentLoops # {}
    /\ l_event_loop' = [l_event_loop EXCEPT ![i] = FreshLoop]
    /\ l_new_event_loop' = [l_new_event_loop EXCEPT ![i] = TRUE]
    /\ l_state' = [l_state EXCEPT ![FreshLoop] = "open"]

\* a property that creates a loop on every access
event_loop_FreshPerCall(i) == NewEventLoop(i)

\* the property AsyncLLM.event_loop, lines 416-428
event_loop(i) ==
    IF l_event_loop[i] = NoLoop                                    \* line 418
    THEN IF RunningLoops # {}                                      \* line 420 succeeds
         THEN LET running == CHOOSE l \in RunningLoops : TRUE IN
              IF IsClosed(running)                                 \* line 421
              THEN NewEventLoop(i)
              ELSE /\ l_event_loop' = [l_event_loop EXCEPT ![i] = running]
                   /\ UNCHANGED <<l_new_event_loop, l_state>>
         ELSE NewEventLoop(i)                                      \* except RuntimeError
    ELSE UNCHANGED <<l_event_loop, l_new_event_loop, l_state>>

\* a caller reads the property
event_loop_read(i) ==
    /\ l_life[i] = "alive"
    /\ event_loop(i)
    /\ UNCHANGED <<l_life, l_unloaded, l_used, l_outcome>>
    /\ UNCHANGED <<pollVars, asyncVars, mergeVars>>
    /\ UNCHANGED paramVars
    /\ UNCHANGED samplerVars

\* AsyncLLM.generate, lines 489-491: self.event_loop.run_until_complete(...), which
\* raises RuntimeError when a loop is running in the thread or when the loop is closed
run_until_complete(i) ==
    /\ l_life[i] = "alive"
    /\ event_loop(i)
    /\ l_used' = [l_used EXCEPT ![i] = @ \cup {l_event_loop'[i]}]
    /\ l_outcome' = [l_outcome EXCEPT ![i] =
                        IF RunningLoops # {} \/ l_state'[l_event_loop'[i]] = "closed"
                        THEN "RuntimeError"
                        ELSE "returned"]
    /\ UNCHANGED <<l_life, l_unloaded>>
    /\ UNCHANGED <<pollVars, asyncVars, mergeVars>>
    /\ UNCHANGED paramVars
    /\ UNCHANGED samplerVars

\* a teardown that closes nothing
del_KeepsLoopOpen(i, shutting_down) ==
    /\ l_life[i] = "alive"
    /\ l_life' = [l_life EXCEPT ![i] = IF shutting_down THEN "deleted_at_shutdown"
                                       ELSE "deleted"]
    /\ UNCHANGED <<l_event_loop, l_new_event_loop, l_unloaded, l_state, l_used, l_outcome>>
    /\ UNCHANGED <<pollVars, asyncVars, mergeVars>>
    /\ UNCHANGED paramVars
    /\ UNCHANGED samplerVars

\* AsyncLLM.__del__, lines 493-501; shutting_down: sys.meta_path is None
del(i, shutting_down) ==
    /\ l_life[i] = "alive"
    /\ l_life' = [l_life EXCEPT ![i] = IF shutting_down THEN "deleted_at_shutdown"
                                       ELSE "deleted"]
    /\ IF ~shutting_down /\ l_new_event_loop[i]                    \* lines 495-498
       THEN l_state' = [l_state EXCEPT ![l_event_loop[i]] = "closed"]   \* line 501
       ELSE l_state' = l_state
    /\ UNCHANGED <<l_event_loop, l_new_event_loop, l_unloaded, l_used, l_outcome>>
    /\ UNCHANGED <<pollVars, asyncVars, mergeVars>>
    /\ UNCHANGED paramVars
    /\ UNCHANGED samplerVars

\* LLM.unload, lines 119-121: `pass`
unload(i) ==
    /\ l_life[i] = "alive"
    /\ l_unloaded' = [l_unloaded EXCEPT ![i] = TRUE]
    /\ UNCHANGED <<l_event_loop, l_new_event_loop, l_life, l_state, l_used, l_outcome>>
    /\ UNCHANGED <<pollVars, asyncVars, mergeVars>>
    /\ UNCHANGED paramVars
    /\ UNCHANGED samplerVars

\* a caller of the thread starts a loop of its own (asyncio.run) ...
asyncio_run_starts ==
    /\ RunningLoops = {}
    /\ AbsentLoops # {}
    /\ l_state' = [l_state EXCEPT ![FreshLoop] = "running"]
    /\ UNCHANGED <<l_event_loop, l_new_event_loop, l_life, l_unloaded, l_used, l_outcome>>
    /\ UNCHANGED <<pollVars, asyncVars, mergeVars>>
    /\ UNCHANGED paramVars
    /\ UNCHANGED samplerVars

\* ... and asyncio.run closes that loop when its coroutine is done
asyncio_run_ends ==
    /\ \E l \in RunningLoops : l_state' = [l_state EXCEPT ![l] = "closed"]
    /\ UNCHANGED <<l_event_loop, l_new_event_loop, l_life, l_unloaded, l_used, l_outcome>>
    /\ UNCHANGED <<pollVars, asyncVars, mergeVars>>
    /\ UNCHANGED paramVars
    /\ UNCHANGED samplerVars

InitLoop ==
    /\ NoLoopYet
    /\ use_offline_batch_generation = FALSE
    /\ offline_batch_generation_block_until_done = NoInt
    /\ jobs_ids = None
    /\ implemented = FALSE
    /\ NoCallYet
    /\ num_generations_param_supported = TRUE
    /\ NoGenerateYet
    /\ NoMergeYet
    /\ NoParamsYet
    /\ NoSamplerYet

NextLoop ==
    \/ \E i \in Instances : event_loop_read(i)
    \/ \E i \in Instances : run_until_complete(i)
    \/ \E i \in Instances : \E shutting_down \in BOOLEAN : del(i, shutting_down)
    \/ \E i \in Instances : unload(i)
    \/ asyncio_run_starts
    \/ asyncio_run_ends

SpecLoop == InitLoop /\ [][NextLoop]_vars

(***************************************************************************)
(* Properties of the event loop (SpecLoop).                                *)
(***************************************************************************)
\* C21: an instance's loop is created on first use and never replaced afterwards, and
\* every generate call of the instance runs on that loop.
C21_OneLoopPerInstance ==
    [][\A i \in Instances :
          /\ l_event_loop[i] # NoLoop => l_event_loop'[i] = l_event_loop[i]
          /\ l_used'[i] \subseteq {l_event_loop'[i]} \ {NoLoop}]_vars

C21_Witness ==
    \E i \in Instances :
        /\ l_life[i] = "alive"
        /\ l_new_event_loop[i]
        /\ l_used[i] = {l_event_loop[i]}
        /\ l_outcome[i] = "returned"
        /\ l_unloaded[i]
        /\ \E j \in Instances : j # i /\ l_used[j] # {} /\ l_event_loop[j] # l_event_loop[i]

\* C22: no two instances hold the same event loop.
C22_LoopNotShared ==
    \A i \in Instances : \A j \in Instances :
        (i # j /\ l_event_loop[i] # NoLoop) => l_event_loop[i] # l_event_loop[j]

C24_FanOutShape ==
    a_pc \in {"gathering", "returned", "raised"}
    => IF num_generations_param_supported
       THEN /\ Len(tasks) = Len(inputs)
            /\ \A i \in DOMAIN tasks :
                  /\ tasks[i].pos = i
                  /\ tasks[i].input = inputs[i]
                  /\ tasks[i].ng = {num_generations}
       ELSE /\ Len(tasks) = Len(inputs) * num_generations
            /\ \A p \in DOMAIN inputs :
                  TasksOf(p) = ((p - 1) * num_generations + 1)..(p * num_generations)
            /\ \A i \in DOMAIN tasks :
                  /\ tasks[i].ng = NoInt
                  /\ tasks[i].pos \in DOMAIN inputs
                  /\ tasks[i].input = inputs[tasks[i].pos]

C24_Witness ==
    /\ a_pc = "gathering"
    /\ ~num_generations_param_supported
    /\ inputs = <<"p", "q">>
    /\ num_generations = 2
    /\ Len(tasks) = 4
    /\ TasksOf(2) = {3, 4}
    /\ Pending(tasks) = {1, 4}

(***************************************************************************)
(* LLM.runtime_parameters_names (SpecParams): the generation_kwargs entry  *)
(* computed from the signature of generate (LLM) or agenerate (AsyncLLM).  *)
(* A signature maps each parameter name to its default, "empty" standing   *)
(* for inspect.Parameter.empty.                                            *)
(***************************************************************************)
ParamNames == {"input", "inputs", "num_generations", "temperature", "kwargs"}
Defaults == {"empty", "None", "value"}
Signatures == UNION {[names -> Defaults] : names \in SUBSET ParamNames}

\* AsyncLLM.generate(self, inputs, num_generations=1, **kwargs), lines 472-477
AsyncGenerateSignature ==
    [name \in {"inputs", "num_generations", "kwargs"} |->
        IF name = "num_generations" THEN "value" ELSE "empty"]

\* LLM.generate_parameters (line 250), overridden by AsyncLLM (line 405)
generate_parameters == IF r_async THEN r_agenerate ELSE r_generate

\* a test that takes a default of None for no default
is_optional_NotNone(default) == default \notin {"empty", "None"}

\* param.default != inspect.Parameter.empty, line 269
is_optional(default) == default # "empty"

\* the names skipped at line 267
ReservedNames == {"input", "inputs", "num_generations"}

\* the loop of lines 266-270
generation_kwargs(parameters) ==
    [name \in DOMAIN parameters \ ReservedNames |-> is_optional(parameters[name])]

runtime_parameters_names ==
    /\ r_pc = "constructed"
    /\ r_result' = [generation_kwargs |-> generation_kwargs(generate_parameters)]
    /\ r_pc' = "returned"
    /\ UNCHANGED <<r_async, r_generate, r_agenerate>>
    /\ UNCHANGED <<pollVars, asyncVars, mergeVars, loopVars>>
    /\ UNCHANGED samplerVars

InitParams ==
    /\ r_pc = "constructed"
    /\ r_async \in BOOLEAN
    /\ \E sig \in Signatures :
          IF r_async
          THEN r_generate = AsyncGenerateSignature /\ r_agenerate = sig
          ELSE r_generate = sig /\ r_agenerate = NoSignature
    /\ r_result = [generation_kwargs |-> NoSignature]
    /\ use_offline_batch_generation = FALSE
    /\ offline_batch_generation_block_until_done = NoInt
    /\ jobs_ids = None
    /\ implemented = FALSE
    /\ NoCallYet
    /\ num_generations_param_supported = TRUE
    /\ NoGenerateYet
    /\ NoMergeYet
    /\ NoLoopYet
    /\ NoSamplerYet

NextParams == runtime_parameters_names

SpecParams == InitParams /\ [][NextParams]_vars

\* the signature of the generation primitive of the instance
Primitive == IF r_async THEN r_agenerate ELSE r_generate

\* C25: generation_kwargs lists exactly the parameters of the generation primitive
\* named other than input, inputs and num_generations, each flagged optional exactly
\* when it declares a default.
C25_GenerationKwargsOfPrimitive ==
    r_pc = "returned"
    => /\ DOMAIN r_result.generation_kwargs
            = {name \in DOMAIN Primitive :
                  name \notin {"input", "inputs", "num_generations"}}
       /\ \A name \in DOMAIN r_result.generation_kwargs :
             r_result.generation_kwargs[name] = (Primitive[name] \in {"None", "value"})

C25_Witness ==
    /\ r_pc = "returned"
    /\ r_async
    /\ DOMAIN r_agenerate = {"input", "num_generations", "temperature", "kwargs"}
    /\ r_agenerate["temperature"] = "None"
    /\ r_result.generation_kwargs = [name \in {"temperature", "kwargs"} |->
                                        name = "temperature"]

(***************************************************************************)
(* DataSampler.process and DataSampler._transform_data (SpecSampler,       *)
(* data_sampler.py).  A value of the data records the dictionary and the   *)
(* column it stands in.                                                    *)
(***************************************************************************)
\* the dictionary at position d of a dataset, with the columns cols
Dictionary(d, cols) == [col \in cols |-> [row |-> d, col |-> col]]

\* datasets: List[Dict[str, Any]], non-empty (model_post_init reads data[0]); the
\* dictionaries of the second do not have the same keys
DataSets ==
    { << Dictionary(1, {"a", "b"}), Dictionary(2, {"a", "b"}) >>,
      << Dictionary(1, {"a"}), Dictionary(2, {"a", "b"}) >> }

\* a minimum that is always zero
Min_Zero(x, y) == 0

\* values of DataSampler.size, and offsets passed to process
Sizes == {0, 1, 2}
Offsets == {0, 1}

Min(x, y) == IF x <= y THEN x ELSE y

\* result[key].append(value) raises KeyError for a key data[0] does not have
transform_fails(data) ==
    /\ Len(data) > 0
    /\ \E i \in DOMAIN data : \E key \in DOMAIN data[i] : key \notin DOMAIN data[1]

\* the values of column b collected from the last item to the first
RECURSIVE Appended_BackwardsForB(_, _)
Appended_BackwardsForB(data, key) ==
    IF Len(data) = 0 THEN <<>>
    ELSE LET front == Appended_BackwardsForB(SubSeq(data, 1, Len(data) - 1), key)
             item == data[Len(data)]
         IN  IF key \notin DOMAIN item THEN front
             ELSE IF key = "b" THEN <<item[key]>> \o front
             ELSE Append(front, item[key])

\* the values appended to result[key], lines 175-177
RECURSIVE Appended(_, _)
Appended(data, key) ==
    IF Len(data) = 0 THEN <<>>
    ELSE LET front == Appended(SubSeq(data, 1, Len(data) - 1), key)
             item == data[Len(data)]
         IN  IF key \in DOMAIN item THEN Append(front, item[key]) ELSE front

\* DataSampler._transform_data, lines 168-179
transform_data(data) ==
    IF Len(data) = 0 THEN <<>>
    ELSE << [key \in DOMAIN data[1] |-> Appended(data, key)] >>

\* a slice that keeps the whole batch
islice_Everything(batch, n) == batch

\* list(islice(batch, n)), line 164
islice(batch, n) == SubSeq(batch, 1, Min(n, Len(batch)))

\* one iteration of the while loop of lines 155-166, up to its yield; picks stands for
\* the random.choices of the batch_size rounds of line 159
process_yield ==
    /\ s_pc = "running"
    /\ s_total_samples < s_samples                                     \* line 155
    /\ Len(s_flags) <= MaxSamples
    /\ \E picks \in [1..s_batch_size -> [1..s_size -> DOMAIN s_data]] :
         LET choices(r) == [k \in 1..s_size |-> s_data[picks[r][k]]]
             bs == Min(s_batch_size, s_samples - s_total_samples)      \* line 157
             batch == SumLists([r \in 1..s_batch_size |-> transform_data(choices(r))])
         IN  IF \E r \in 1..s_batch_size : transform_fails(choices(r))
             THEN /\ s_pc' = "raised"
                  /\ UNCHANGED <<s_total_samples, s_batch, s_flags, s_rows>>
             ELSE /\ s_pc' = s_pc
                  /\ s_total_samples' = s_total_samples + bs           \* line 162
                  /\ s_batch' = islice(batch, bs)
                  /\ s_flags' = Append(s_flags, s_total_samples' >= s_samples)
                  /\ s_rows' = s_rows + Len(s_batch')
    /\ UNCHANGED <<s_data, s_size, s_samples, s_batch_size, s_offset>>
    /\ UNCHANGED <<pollVars, asyncVars, mergeVars, loopVars, paramVars>>

\* the condition of line 155 is false: the generator is exhausted
process_returns ==
    /\ s_pc = "running"
    /\ ~(s_total_samples < s_samples)
    /\ s_pc' = "done"
    /\ UNCHANGED <<s_data, s_size, s_samples, s_batch_size, s_offset,
                   s_total_samples, s_batch, s_flags, s_rows>>
    /\ UNCHANGED <<pollVars, asyncVars, mergeVars, loopVars, paramVars>>

\* process(offset) called on a constructed step: total_samples = 0, line 153
InitSampler ==
    /\ s_data \in DataSets
    /\ s_size \in Sizes
    /\ s_samples \in 0..MaxSamples
    /\ s_batch_size \in 0..MaxBatchSize
    /\ s_offset \in Offsets
    /\ s_pc = "running"
    /\ s_total_samples = 0
    /\ s_batch = <<>>
    /\ s_flags = <<>>
    /\ s_rows = 0
    /\ use_offline_batch_generation = FALSE
    /\ offline_batch_generation_block_until_done = NoInt
    /\ jobs_ids = None
    /\ implemented = FALSE
    /\ NoCallYet
    /\ num_generations_param_supported = TRUE
    /\ NoGenerateYet
    /\ NoMergeYet
    /\ NoLoopYet
    /\ NoParamsYet

NextSampler ==
    \/ process_yield
    \/ process_returns

SpecSampler == InitSampler /\ [][NextSampler]_vars

\* the consumer keeps iterating over the generator
SpecSamplerFair ==
    /\ InitSampler
    /\ [][NextSampler]_vars
    /\ WF_vars(process_yield)
    /\ WF_vars(process_returns)

(***************************************************************************)
(* Properties of DataSampler (SpecSampler).                                *)
(***************************************************************************)
\* the rows yielded before the batch yielded last
RowsBefore == s_rows - Len(s_batch)

SameColumns(data) == \A d \in DOMAIN data : DOMAIN data[d] = DOMAIN data[1]

\* ceil(samples / batch_size) for batch_size >= 1
BatchesExpected ==
    IF s_batch_size >= 1 THEN (s_samples + s_batch_size - 1) \div s_batch_size ELSE 0

C28_OffsetSkipsRows ==
    (s_pc = "done" /\ s_size >= 1 /\ s_offset > 0 /\ s_offset <= s_samples)
    => s_rows = s_samples - s_offset

\* the j-th values of all columns of a row are those of one dictionary of the data
Aligned(row) ==
    \A col \in DOMAIN row :
        \A j \in DOMAIN row[col] :
            \E d \in DOMAIN s_data :
                \A other \in DOMAIN row :
                    /\ j \in DOMAIN row[other]
                    /\ other \in DOMAIN s_data[d]
                    /\ row[other][j] = s_data[d][other]

\* the column keys of the data
Columns == UNION {DOMAIN s_data[d] : d \in DOMAIN s_data}

\* C29 as stated: every row yielded maps each column key of the data to exactly `size`
\* values, the j-th values of all columns coming from the same dictionary.
C29_RowsAlignedWithSizeValues ==
    \A r \in DOMAIN s_batch :
        /\ DOMAIN s_batch[r] = Columns
        /\ \A col \in Columns : Len(s_batch[r][col]) = s_size
        /\ Aligned(s_batch[r])

\* C29, amended: when every dictionary of the data has the same keys, every row yielded
\* maps each of these keys to exactly `size` values, the j-th values of all columns
\* coming from the same dictionary; otherwise a row has the keys of one dictionary of
\* the data and at most `size` values per key, each a value of that column.
C29_RowsAlignedForUniformData ==
    \A r \in DOMAIN s_batch :
        IF SameColumns(s_data)
        THEN /\ DOMAIN s_batch[r] = Columns
             /\ \A col \in Columns : Len(s_batch[r][col]) = s_size
             /\ Aligned(s_batch[r])
        ELSE /\ \E d \in DOMAIN s_data : DOMAIN s_batch[r] = DOMAIN s_data[d]
             /\ \A col \in DOMAIN s_batch[r] :
                   /\ Len(s_batch[r][col]) <= s_size
                   /\ \A j \in DOMAIN s_batch[r][col] :
                         \E d \in DOMAIN s_data :
                             /\ col \in DOMAIN s_data[d]
                             /\ s_batch[r][col][j] = s_data[d][col]

C29_Witness ==
    /\ SameColumns(s_data)
    /\ s_size = 2
    /\ Len(s_batch) = 2
    /\ s_batch[1]["a"][1].row = 2
    /\ s_batch[1]["a"][2].row = 1
    /\ s_batch[1]["b"][1].row = 2
    /\ s_batch[2]["b"][2].row = 2

\* C30: a KeyboardInterrupt delivered while the poller is inside an invocation of
\* offline_batch_generate ends the call in that step with the not-finished condition
\* carrying the jobs_ids the instance then holds, and the call invokes
\* offline_batch_generate no more.
C30_InterruptInInvocationStopsPolling ==
    [][/\ (Polling /\ pc = "poll_invoke" /\ interrupt_at' = "invoke")
            => /\ pc' = "raised"
               /\ outcome' = [kind |-> "NotFinished", value |-> jobs_ids']
               /\ n_sleeps' = n_sleeps
       /\ (Polling /\ interrupt_at = "invoke")
            => /\ pc = "raised"
               /\ n_offline' = n_offline \/ calls' = calls + 1]_vars

C30_Witness ==
    /\ Polling
    /\ pc = "raised"
    /\ interrupt_at = "invoke"
    /\ ~sigint_env
    /\ n_notfinished = 1
    /\ n_sleeps = 1
    /\ n_offline = 2
    /\ outcome = [kind |-> "NotFinished", value |-> jobs_ids]
    /\ jobs_ids \in JobHandles

\* C31: the interrupt flag is consulted only after a not-finished signal.  Whether
\* or not the flag is set, the poller leaves the position of the invocation only
\* by an invocation of offline_batch_generate, so a polling call that has ended
\* has invoked it at least once; an invocation that hands back a completed
\* result makes the call return that result although the flag is set; and the
\* poller starts a sleep only from the check, and only when the flag was not set
\* at that check.
C31_FlagConsultedOnlyAfterNotFinished ==
    [][/\ (pc = "poll_invoke" /\ pc' # pc) => n_offline' = n_offline + 1
       /\ (Polling /\ pc' \in Terminal \cup {"handler", "sleep"}) => n_offline' >= 1
       /\ (pc = "poll_invoke" /\ backend_value' # backend_value)
            => /\ backend_value' \in BatchResults
               /\ pc' = "returned"
               /\ outcome' = [kind |-> "result", value |-> backend_value']
       /\ (pc' = "sleep" /\ pc # "sleep") => (pc = "handler" /\ ~sigint_env)
       /\ (pc \in {"poll_invoke", "sleep"} /\ pc' = "raised" /\ sigint_env)
            => interrupt_at' # "nowhere" \/ signal'.kind = "NotImplemented"]_vars

\* the flag was set before the only invocation, which returned the completed result
C31_Witness ==
    /\ Polling
    /\ pc = "returned"
    /\ sigint_env
    /\ n_offline = 1
    /\ n_notfinished = 0
    /\ n_sleeps = 0
    /\ outcome = [kind |-> "result", value |-> backend_value]
    /\ backend_value \in BatchResults

\* C32: calls on one instance are isolated from each other.  When
\* AsyncLLM.generate has returned or raised, none of the tasks it created is
\* still pending, so no task of an earlier, aborted batch is left on the event
\* loop to take a step during a later generate call.
C32_CallsIsolated ==
    /\ a_pc \in Terminal => Pending(tasks) = {}
    /\ leftover = 0

\* some fragment lacks a statistics key of the first fragment
LacksKeyOfFirst(fragments) ==
    \E i \in DOMAIN fragments :
        ~(DOMAIN fragments[1].statistics \subseteq DOMAIN fragments[i].statistics)

\* C33: the statistics keys of a merged result are exactly the keys of the first
\* fragment.  A key that only a later fragment has is not in the result; and when
\* a later fragment lacks a key of the first fragment, merge_responses on the
\* fragments fails and returns no result, so every result it returns holds, under
\* each of its keys, the values of every fragment in fragment order.
C33_KeysOfFirstFragment ==
    [][(m_pc = "holding" /\ m_responses = m_fragments /\ m_fragments # <<>>
            /\ m_pc' # "holding" /\ m_responses' = m_responses)
        => IF LacksKeyOfFirst(m_fragments)
           THEN m_pc' = "raised" /\ m_result' = m_result
           ELSE (m_pc' = "merged")
                => /\ Len(m_result') = 1
                   /\ DOMAIN m_result'[1].statistics = DOMAIN m_fragments[1].statistics
                   /\ \A key \in DOMAIN m_result'[1].statistics :
                         IsConcatenation(m_result'[1].statistics[key],
                             [i \in DOMAIN m_fragments |-> m_fragments[i].statistics[key]])]_vars

\* the second fragment carries a key the first one lacks, and the result lacks it too
C33_Witness ==
    /\ m_pc = "merged"
    /\ m_responses = m_fragments
    /\ Len(m_fragments) = 2
    /\ DOMAIN m_fragments[1].statistics = {"input_tokens"}
    /\ DOMAIN m_fragments[2].statistics = StatKeys
    /\ DOMAIN m_result[1].statistics = {"input_tokens"}
    /\ Len(m_result[1].statistics["input_tokens"]) = 2

\* the fields of a GenerateOutput that merge_responses writes (lines 607-608)
MergedFields == {"generations", "statistics"}

\* C34: every result that has passed through merge_responses has exactly the two
\* fields generations and statistics.  Whatever else the fragments carry, logprobs
\* included, is in no entry of what AsyncLLM.generate returns, under the
\* native-count and under the repeated-call strategy, and in no result of
\* merge_responses called on a list of fragments.
C34_MergedResultHasTwoFields ==
    /\ a_pc = "returned" => \A k \in DOMAIN result : DOMAIN result[k] = MergedFields
    /\ m_pc = "merged" => \A k \in DOMAIN m_result : DOMAIN m_result[k] = MergedFields

\* a call that asked for logprobs: both fragments of the repeated-call strategy carry
\* them, the entry returned does not
C34_Witness ==
    /\ a_pc = "returned"
    /\ ~num_generations_param_supported
    /\ a_kwargs = "logprobs"
    /\ Len(tasks) = 2
    /\ \A i \in DOMAIN tasks : "logprobs" \in DOMAIN Fragment(i)
    /\ Len(result) = 1
    /\ "logprobs" \notin DOMAIN result[1]

\* every statistics sequence of the response is as long as its generations
LengthsAgree(response) ==
    \A key \in DOMAIN response.statistics :
        Len(response.statistics[key]) = Len(response.generations)

\* C35: merge_responses preserves the invariant of a GenerateOutput.  When every
\* fragment has, under each of its statistics keys, as many values as it has
\* generations, the merged result has, under each of its statistics keys, as many
\* values as it has generations, and that number is the sum of the fragments'
\* numbers of generations.
C35_MergePreservesLengths ==
    (m_pc = "merged" /\ m_fragments # <<>>
        /\ \A i \in DOMAIN m_fragments : LengthsAgree(m_fragments[i]))
    => /\ Len(m_result) = 1
       /\ LengthsAgree(m_result[1])
       /\ Len(m_result[1].generations)
            = LenBefore([i \in DOMAIN m_fragments |-> m_fragments[i].generations],
                        Len(m_fragments) + 1)

\* three fragments of 2, 1 and 2 generations, each with as many values per key
C35_Witness ==
    /\ m_pc = "merged"
    /\ m_responses = m_fragments
    /\ Len(m_fragments) = 3
    /\ \A i \in DOMAIN m_fragments : LengthsAgree(m_fragments[i])
    /\ Len(m_fragments[1].generations) = 2
    /\ Len(m_fragments[2].generations) = 1
    /\ Len(m_fragments[3].generations) = 2
    /\ DOMAIN m_result[1].statistics = StatKeys
    /\ Len(m_result[1].generations) = 5
    /\ \A key \in StatKeys : Len(m_result[1].statistics[key]) = 5
====
